---------------------------- MODULE Spec2Model ----------------------------
(***************************************************************************)
(* Model of predexchange-core/src/lib.rs: OrderbookEngine, an in-memory L2 *)
(* orderbook (bids and asks as BTreeMap<u64, f64>) driven by full          *)
(* snapshots and incremental deltas.                                       *)
(*                                                                         *)
(* Representation of f64.  A float is a record [nan, v]: nan says whether  *)
(* the value is NaN, v is the value as an exact fixed-point integer.  A    *)
(* price carries v in units of 1/ONE (ONE stands for the literal 1.0), a   *)
(* size carries v in whole units.  Comparisons follow IEEE-754: every      *)
(* ordered comparison with NaN is false.                                   *)
(***************************************************************************)
EXTENDS Integers, Sequences, FiniteSets, TLC

VARIABLES
    market_id,      \* OrderbookEngine.market_id
    asset_id,       \* OrderbookEngine.asset_id
    bids,           \* OrderbookEngine.bids : key -> size
    asks,           \* OrderbookEngine.asks : key -> size
    has_snapshot,   \* OrderbookEngine.has_snapshot
    call,           \* history: the last call (and a snapshot's arguments,
                    \* a getter's return value)
    snapshot_seen   \* history: apply_snapshot has been called

vars == <<market_id, asset_id, bids, asks, has_snapshot, call,
          snapshot_seen>>

---------------------------------------------------------------------------
(* f64 values *)

\* The literal 1.0 of `p <= 1.0` and `clamp(0.0, 1.0)` in price units.
ONE == 10000000

\* The literal 1_000_000.0 of price_to_key / key_to_price.
SCALE == 1000000

F(x) == [nan |-> FALSE, v |-> x]
NaN == [nan |-> TRUE, v |-> 0]

\* a >= b, a <= b, a > b on f64 (false when either side is NaN)
f64_ge(a, b) == ~a.nan /\ ~b.nan /\ a.v >= b.v
f64_le(a, b) == ~a.nan /\ ~b.nan /\ a.v <= b.v
f64_gt(a, b) == ~a.nan /\ ~b.nan /\ a.v > b.v

ZERO == F(0)

\* (a clamp that returns its argument)
f64_clamp_nothing(p, lo, hi) == p

\* f64::clamp(self, min, max): NaN stays NaN, otherwise the nearest value
\* of [min, max].
f64_clamp(p, lo, hi) ==
    IF p.nan THEN p
    ELSE IF p.v < lo THEN F(lo)
    ELSE IF p.v > hi THEN F(hi)
    ELSE p

\* (x * 1_000_000.0).round() as u64: x * SCALE is x.v / (ONE / SCALE) keys,
\* rounded half away from zero; the cast to u64 gives 0 for NaN and for a
\* negative value.
round_as_u64(x) ==
    IF x.nan \/ x.v < 0 THEN 0
    ELSE (2 * x.v + ONE \div SCALE) \div (2 * (ONE \div SCALE))

price_to_key(p) == round_as_u64(f64_clamp(p, 0, ONE))

\* k as f64 / 1_000_000.0, exact in price units
key_to_price(k) == F(k * (ONE \div SCALE))

\* Option<f64>
None == [some |-> FALSE, val |-> ZERO]
Some(x) == [some |-> TRUE, val |-> x]

---------------------------------------------------------------------------
(* f64 to the last bit, for the arithmetic of price_to_key and key_to_price.
   A natural number of any size is the sequence of its digits in base LIMB,
   most significant first, without leading zeros; a finite f64 >= 0 is a
   record [m, e] of value m * 2^e, with m such a number of at most MANT
   binary digits (or 2^MANT, after a carry out of the rounding). *)

\* significant binary digits of an f64
MANT == 53

\* a digit times a factor below 2^17 stays below 2^30
LimbBits == 30 - 17
LIMB == 2 ^ LimbBits

Zeros(n) == [i \in 1..n |-> 0]

Big_norm(s) ==
    IF \A i \in 1..Len(s) : s[i] = 0 THEN <<>>
    ELSE SubSeq(s, CHOOSE i \in 1..Len(s) :
                       s[i] # 0 /\ \A j \in 1..(i - 1) : s[j] = 0,
                Len(s))

\* a number below 2^31 as digits, and a number of at most three digits
Big_of(n) ==
    Big_norm(<<n \div (LIMB * LIMB), (n \div LIMB) % LIMB, n % LIMB>>)

Big_int(s) ==
    LET t == Zeros(3 - Len(s)) \o s
    IN (t[1] * LIMB + t[2]) * LIMB + t[3]

Big_pad(s, n) == Zeros(n - Len(s)) \o s

Big_odd(s) == s # <<>> /\ s[Len(s)] % 2 = 1

\* number of binary digits
Big_bits(s) ==
    IF s = <<>> THEN 0
    ELSE LimbBits * (Len(s) - 1)
           + (CHOOSE n \in 1..LimbBits : 2 ^ (n - 1) <= s[1] /\ s[1] < 2 ^ n)

Big_le(a, b) ==
    \/ Len(a) < Len(b)
    \/ /\ Len(a) = Len(b)
       /\ \/ a = b
          \/ \E i \in 1..Len(a) :
                 /\ a[i] < b[i]
                 /\ \A j \in 1..(i - 1) : a[j] = b[j]

\* s * c for a factor c <= 2^17: digit i and those below it, with the carry
RECURSIVE Big_mul_from(_, _, _, _)
Big_mul_from(s, c, i, carry) ==
    IF i = 0 THEN Big_of(carry)
    ELSE Append(Big_mul_from(s, c, i - 1, (s[i] * c + carry) \div LIMB),
                (s[i] * c + carry) % LIMB)

Big_mul_small(s, c) == Big_norm(Big_mul_from(s, c, Len(s), 0))

RECURSIVE Big_add_from(_, _, _, _)
Big_add_from(a, b, i, carry) ==
    IF i = 0 THEN Big_of(carry)
    ELSE Append(Big_add_from(a, b, i - 1, (a[i] + b[i] + carry) \div LIMB),
                (a[i] + b[i] + carry) % LIMB)

Big_add(a, b) ==
    LET n == IF Len(a) > Len(b) THEN Len(a) ELSE Len(b)
    IN Big_norm(Big_add_from(Big_pad(a, n), Big_pad(b, n), n, 0))

\* a - b for a >= b
RECURSIVE Big_sub_from(_, _, _, _)
Big_sub_from(a, b, i, borrow) ==
    IF i = 0 THEN <<>>
    ELSE Append(Big_sub_from(a, b, i - 1,
                             IF a[i] - b[i] - borrow < 0 THEN 1 ELSE 0),
                (a[i] - b[i] - borrow + LIMB) % LIMB)

Big_sub(a, b) ==
    Big_norm(Big_sub_from(a, Big_pad(b, Len(a)), Len(a), 0))

\* the first i digits of s, modulo a divisor d <= 2^17
RECURSIVE Big_rem(_, _, _)
Big_rem(s, d, i) ==
    IF i = 0 THEN 0 ELSE (Big_rem(s, d, i - 1) * LIMB + s[i]) % d

Big_div_small(s, d) ==
    Big_norm([i \in 1..Len(s) |->
                  (Big_rem(s, d, i - 1) * LIMB + s[i]) \div d])

\* s * 2^n and the integer part of s / 2^n
Big_shl(s, n) ==
    IF s = <<>> THEN s
    ELSE Big_mul_small(s, 2 ^ (n % LimbBits)) \o Zeros(n \div LimbBits)

Big_shr(s, n) ==
    IF n \div LimbBits >= Len(s) THEN <<>>
    ELSE Big_div_small(SubSeq(s, 1, Len(s) - n \div LimbBits),
                       2 ^ (n % LimbBits))

ieee_zero == [m |-> <<>>, e |-> 0]
ieee_one == [m |-> <<1>>, e |-> 0]

\* round to nearest, ties to even: the f64 nearest x * 2^e, where `sticky`
\* says that the exact value has nonzero digits below those of x
ieee_round(x, sticky, e) ==
    IF Big_bits(x) <= MANT THEN [m |-> x, e |-> IF x = <<>> THEN 0 ELSE e]
    ELSE LET k == Big_bits(x) - MANT
             keep == Big_shr(x, k)
             guarded == Big_shr(x, k - 1)
             below == sticky \/ Big_shl(guarded, k - 1) # x
             up == Big_odd(guarded) /\ (below \/ Big_odd(keep))
         IN [m |-> IF up THEN Big_add(keep, <<1>>) ELSE keep, e |-> e + k]

\* binary digits computed after the point of a quotient: enough for
\* MANT + 1 significant ones of any quotient >= 2^-26
QuotientDigits == MANT + 27

\* n / (d * 2^sh) in f64, for integers 0 <= n < 2^31 and 0 < d <= 2^17:
\* the division `n as f64 / c` for c = d * 2^sh, both operands exact
ieee_div(n, d, sh) ==
    LET x == Big_shl(Big_of(n), QuotientDigits)
    IN ieee_round(Big_div_small(x, d), Big_rem(x, d, Len(x)) # 0,
                  0 - QuotientDigits - sh)

\* x * (c * 2^sh) in f64
ieee_mul(x, c, sh) == ieee_round(Big_mul_small(x.m, c), FALSE, x.e + sh)

\* x > 1.0
ieee_gt_one(x) ==
    /\ x.m # <<>>
    /\ IF x.e >= 0 THEN x.e > 0 \/ x.m # <<1>>
       ELSE ~Big_le(x.m, Big_shl(<<1>>, 0 - x.e))

\* f64::clamp(self, 0.0, 1.0) of an x >= 0
ieee_clamp(x) == IF ieee_gt_one(x) THEN ieee_one ELSE x

\* (the cast without f64::round: `as u64` truncates)
ieee_trunc_as_u64(x) ==
    IF x.m = <<>> THEN 0
    ELSE IF x.e >= 0 THEN Big_int(Big_shl(x.m, x.e))
    ELSE Big_int(Big_shr(x.m, 0 - x.e))

\* f64::round (half away from zero) and the cast `as u64`, of an x >= 0
\* below 2^30
ieee_round_as_u64(x) ==
    IF x.m = <<>> THEN 0
    ELSE IF x.e >= 0 THEN Big_int(Big_shl(x.m, x.e))
    ELSE Big_int(Big_shr(x.m, 0 - x.e))
           + (IF Big_odd(Big_shr(x.m, 0 - x.e - 1)) THEN 1 ELSE 0)

\* price_to_key and key_to_price on f64: 1_000_000.0 = 15625 * 2^6
ieee_price_to_key(p) == ieee_round_as_u64(ieee_mul(ieee_clamp(p), 15625, 6))

ieee_key_to_price(k) == ieee_div(k, 15625, 6)

---------------------------------------------------------------------------
(* str::eq_ignore_ascii_case; a string is a sequence of characters *)

AsciiUpper == <<"A","B","C","D","E","F","G","H","I","J","K","L","M",
                "N","O","P","Q","R","S","T","U","V","W","X","Y","Z">>
AsciiLower == <<"a","b","c","d","e","f","g","h","i","j","k","l","m",
                "n","o","p","q","r","s","t","u","v","w","x","y","z">>

to_ascii_lowercase(c) ==
    IF \E i \in DOMAIN AsciiUpper : AsciiUpper[i] = c
    THEN AsciiLower[CHOOSE i \in DOMAIN AsciiUpper : AsciiUpper[i] = c]
    ELSE c

eq_ignore_ascii_case(a, b) ==
    /\ Len(a) = Len(b)
    /\ \A i \in DOMAIN a : to_ascii_lowercase(a[i]) = to_ascii_lowercase(b[i])

BUY == <<"B", "U", "Y">>

---------------------------------------------------------------------------
(* BTreeMap<u64, f64> as a function from the keys present to their sizes *)

BTreeMap_new == [k \in {} |-> ZERO]

BTreeMap_insert(map, key, size) ==
    [k \in DOMAIN map \cup {key} |-> IF k = key THEN size ELSE map[k]]

BTreeMap_remove(map, key) ==
    [k \in DOMAIN map \ {key} |-> map[k]]

\* (a clear() that clears nothing)
BTreeMap_clear_nothing(map) == map

\* BTreeMap::iter: the entries in ascending key order
RECURSIVE BTreeMap_iter(_)
BTreeMap_iter(map) ==
    IF DOMAIN map = {} THEN <<>>
    ELSE LET k == CHOOSE x \in DOMAIN map : \A y \in DOMAIN map : x <= y
         IN <<(<<k, map[k]>>)>> \o BTreeMap_iter(BTreeMap_remove(map, k))

\* Iterator::next and DoubleEndedIterator::next_back on a fresh iterator
iter_next(it) == IF it = <<>> THEN None ELSE Some(Head(it))
iter_next_back(it) == IF it = <<>> THEN None ELSE Some(it[Len(it)])

BTreeMap_clear(map) == BTreeMap_new

---------------------------------------------------------------------------
(* OrderbookEngine *)

Self ==
    [market_id |-> market_id, asset_id |-> asset_id, bids |-> bids,
     asks |-> asks, has_snapshot |-> has_snapshot]

\* OrderbookEngine::new
new(m, a) ==
    [market_id |-> m, asset_id |-> a, bids |-> BTreeMap_new,
     asks |-> BTreeMap_new, has_snapshot |-> FALSE]

\* (the test without its price range)
snapshot_accepts_size_only(p, s) == f64_ge(s, ZERO)

\* the test `s >= 0.0 && p >= 0.0 && p <= 1.0` of apply_snapshot
snapshot_accepts(p, s) ==
    f64_ge(s, ZERO) /\ f64_ge(p, ZERO) /\ f64_le(p, F(ONE))

\* (the loop with entry().or_insert(s) in place of insert: the first entry
\* of a key is kept)
RECURSIVE snapshot_fill_first_wins(_, _)
snapshot_fill_first_wins(map, entries) ==
    IF entries = <<>> THEN map
    ELSE LET p == Head(entries)[1]
             s == Head(entries)[2]
             k == round_as_u64(f64_clamp(p, 0, ONE))
         IN snapshot_fill_first_wins(
                IF f64_ge(s, ZERO) /\ f64_ge(p, ZERO) /\ f64_le(p, F(ONE))
                   /\ k \notin DOMAIN map
                THEN BTreeMap_insert(map, k, s)
                ELSE map,
                Tail(entries))

\* one `for (p, s) in ...` loop of apply_snapshot, entries taken in order
RECURSIVE snapshot_fill(_, _)
snapshot_fill(map, entries) ==
    IF entries = <<>> THEN map
    ELSE LET p == Head(entries)[1]
             s == Head(entries)[2]
         IN snapshot_fill(
                IF snapshot_accepts(p, s)
                THEN BTreeMap_insert(map, price_to_key(p), s)
                ELSE map,
                Tail(entries))

\* (apply_snapshot raising the gate only for a snapshot that has entries)
apply_snapshot_flag_if_nonempty(self, B, A) ==
    [self EXCEPT !.bids = snapshot_fill(BTreeMap_clear(self.bids), B),
                 !.asks = snapshot_fill(BTreeMap_clear(self.asks), A),
                 !.has_snapshot = (self.has_snapshot \/ B # <<>> \/ A # <<>>)]

\* OrderbookEngine::apply_snapshot
apply_snapshot(self, B, A) ==
    [self EXCEPT !.bids = snapshot_fill(BTreeMap_clear(self.bids), B),
                 !.asks = snapshot_fill(BTreeMap_clear(self.asks), A),
                 !.has_snapshot = TRUE]

\* (the choice of `map` by side == "BUY")
delta_is_buy_exact(side) == side = BUY

\* the choice of `map` in apply_delta
delta_is_buy(side) == eq_ignore_ascii_case(side, BUY)

\* (the update with `size < 0.0` as the removal test)
delta_update_strict(map, key, size) ==
    IF f64_gt(ZERO, size)
    THEN BTreeMap_remove(map, key)
    ELSE BTreeMap_insert(map, key, size)

\* (the update adding the size to the resting size)
delta_update_additive(map, key, size) ==
    IF f64_le(size, ZERO)
    THEN BTreeMap_remove(map, key)
    ELSE BTreeMap_insert(map, key,
             IF key \in DOMAIN map /\ ~map[key].nan /\ ~size.nan
             THEN F(map[key].v + size.v) ELSE size)

\* (the update clearing the side where it is to remove one level)
delta_update_clears_side(map, key, size) ==
    IF f64_le(size, ZERO)
    THEN BTreeMap_new
    ELSE BTreeMap_insert(map, key, size)

\* (the update inserting only where no level rests, as entry().or_insert())
delta_update_or_insert(map, key, size) ==
    IF f64_le(size, ZERO)
    THEN BTreeMap_remove(map, key)
    ELSE IF key \in DOMAIN map THEN map
    ELSE BTreeMap_insert(map, key, size)

\* the update of `map` in apply_delta
delta_update(map, key, size) ==
    IF f64_le(size, ZERO)
    THEN BTreeMap_remove(map, key)
    ELSE BTreeMap_insert(map, key, size)

\* (apply_delta without the has_snapshot gate)
apply_delta_ungated(self, side, price, size) ==
    LET key == price_to_key(price)
    IN IF delta_is_buy(side)
       THEN [self EXCEPT !.bids = delta_update(self.bids, key, size)]
       ELSE [self EXCEPT !.asks = delta_update(self.asks, key, size)]

\* (apply_delta ignoring an update that would cross the book)
apply_delta_uncrossed(self, side, price, size) ==
    IF ~self.has_snapshot THEN self
    ELSE LET key == price_to_key(price)
             crosses ==
                 IF delta_is_buy(side)
                 THEN \E a \in DOMAIN self.asks : key > a
                 ELSE \E b \in DOMAIN self.bids : b > key
         IN IF f64_gt(size, ZERO) /\ crosses THEN self
            ELSE IF delta_is_buy(side)
            THEN [self EXCEPT !.bids = delta_update(self.bids, key, size)]
            ELSE [self EXCEPT !.asks = delta_update(self.asks, key, size)]

\* (apply_delta ignoring a side string that is neither "BUY" nor "SELL")
apply_delta_side_checked(self, side, price, size) ==
    IF ~self.has_snapshot THEN self
    ELSE IF ~delta_is_buy(side)
            /\ ~eq_ignore_ascii_case(side, <<"S", "E", "L", "L">>)
    THEN self
    ELSE LET key == price_to_key(price)
         IN IF delta_is_buy(side)
            THEN [self EXCEPT !.bids = delta_update(self.bids, key, size)]
            ELSE [self EXCEPT !.asks = delta_update(self.asks, key, size)]

\* (apply_delta with the price range test of apply_snapshot)
apply_delta_range_checked(self, side, price, size) ==
    IF ~self.has_snapshot \/ ~(f64_ge(price, ZERO) /\ f64_le(price, F(ONE)))
    THEN self
    ELSE LET key == price_to_key(price)
         IN IF delta_is_buy(side)
            THEN [self EXCEPT !.bids = delta_update(self.bids, key, size)]
            ELSE [self EXCEPT !.asks = delta_update(self.asks, key, size)]

\* OrderbookEngine::apply_delta
apply_delta(self, side, price, size) ==
    IF ~self.has_snapshot THEN self
    ELSE LET key == price_to_key(price)
         IN IF delta_is_buy(side)
            THEN [self EXCEPT !.bids = delta_update(self.bids, key, size)]
            ELSE [self EXCEPT !.asks = delta_update(self.asks, key, size)]

\* (best_bid taking the head of the ascending order)
best_bid_first(self) ==
    LET first == iter_next(BTreeMap_iter(self.bids))
    IN IF first.some THEN Some(key_to_price(first.val[1])) ELSE None

\* OrderbookEngine::best_bid
best_bid(self) ==
    LET last == iter_next_back(BTreeMap_iter(self.bids))
    IN IF last.some THEN Some(key_to_price(last.val[1])) ELSE None

\* (best_ask taking the tail of the ascending order)
best_ask_last(self) ==
    LET last == iter_next_back(BTreeMap_iter(self.asks))
    IN IF last.some THEN Some(key_to_price(last.val[1])) ELSE None

\* OrderbookEngine::best_ask
best_ask(self) ==
    LET first == iter_next(BTreeMap_iter(self.asks))
    IN IF first.some THEN Some(key_to_price(first.val[1])) ELSE None

\* (mid_price without the one-sided arms of the match)
mid_price_both_or_none(self) ==
    LET bb == best_bid(self)
        ba == best_ask(self)
    IN IF bb.some /\ ba.some THEN Some(F((bb.val.v + ba.val.v) \div 2))
       ELSE None

\* OrderbookEngine::mid_price
mid_price(self) ==
    LET bb == best_bid(self)
        ba == best_ask(self)
    IN IF bb.some /\ ba.some THEN Some(F((bb.val.v + ba.val.v) \div 2))
       ELSE IF bb.some THEN Some(bb.val)
       ELSE IF ba.some THEN Some(ba.val)
       ELSE None

\* OrderbookEngine::has_snapshot (the getter)
get_has_snapshot(self) == self.has_snapshot

---------------------------------------------------------------------------
(* Inputs *)

MarketIds == {"mkt-1"}
AssetIds == {"yes"}

Sides == { BUY, <<"b", "u", "y">>, <<"S", "E", "L", "L">>, <<>>,
           <<"B", "I", "D">> }

\* prices: -0.1, 0.0, 0.3, 0.3000004 (same key as 0.3), 1.0, 1.5, NaN
P_below == F(0 - ONE \div 10)
P_zero == F(0)
P_a == F(3 * (ONE \div 10))
P_a2 == F(3 * (ONE \div 10) + 4)
P_one == F(ONE)
P_above == F(ONE + ONE \div 2)

Prices == { P_below, P_zero, P_a, P_a2, P_one, P_above, NaN }

\* sizes: -1.0, 0.0, 1.0, 5.0 (finite sizes only: a NaN size is not among
\* the inputs)
Sizes == { F(0 - 1), F(0), F(1), F(5) }

\* the (price, size) entries a snapshot is made of: the accepted prices
\* (both ends of [0, 1] included, two prices of one key with different
\* sizes, a size of 0.0) and one entry failing each part of the test
Entries ==
    { <<P_zero, F(1)>>, <<P_a, F(0)>>, <<P_a2, F(5)>>, <<P_one, F(5)>>,
      <<P_below, F(1)>>, <<P_above, F(5)>>, <<NaN, F(1)>>,
      <<P_a, F(0 - 1)>> }

\* the prices price_to_key is tried on as f64: the f64 written as the
\* decimal v / ONE, and its neighbours one unit in the last place away
ieee_of(x) == ieee_div(x.v, ONE \div 2 ^ 7, 7)

ieee_nudge(x, by) ==
    IF x.m = <<>> \/ by = 0 THEN x
    ELSE IF by > 0 THEN [x EXCEPT !.m = Big_add(x.m, <<1>>)]
    ELSE [x EXCEPT !.m = Big_sub(x.m, <<1>>)]

\* half steps (k + 0.5) / 1,000,000 are taken for the keys k up to
\* MaxHalfStep from either end of the key range
MaxHalfStep == 20

RoundTripDecimals ==
    { 10 * k + 5 : k \in 0..MaxHalfStep }
        \cup { ONE - (10 * k + 5) : k \in 0..MaxHalfStep }
        \cup { 0, P_a.v, P_a2.v, ONE \div 2, ONE }

RoundTripPrices ==
    { p \in { ieee_nudge(ieee_of(F(n)), by) :
                  n \in RoundTripDecimals, by \in {0 - 1, 0, 1} } :
          ~ieee_gt_one(p) }

\* longest pair of sequences given to one apply_snapshot (bids and asks
\* together)
MaxLen == 2

SeqsOfLen(n) == [1..n -> Entries]

SnapshotInputs ==
    UNION { SeqsOfLen(n) \X SeqsOfLen(m) :
            <<n, m>> \in { x \in (0..MaxLen) \X (0..MaxLen) :
                           x[1] + x[2] <= MaxLen } }

---------------------------------------------------------------------------
(* State machine *)

Init ==
    \E m \in MarketIds, a \in AssetIds :
        /\ market_id = new(m, a).market_id
        /\ asset_id = new(m, a).asset_id
        /\ bids = new(m, a).bids
        /\ asks = new(m, a).asks
        /\ has_snapshot = new(m, a).has_snapshot
        /\ call = [op |-> "new"]
        /\ snapshot_seen = FALSE

Become(e) ==
    /\ market_id' = e.market_id
    /\ asset_id' = e.asset_id
    /\ bids' = e.bids
    /\ asks' = e.asks
    /\ has_snapshot' = e.has_snapshot

ApplySnapshot ==
    \E in \in SnapshotInputs :
        /\ Become(apply_snapshot(Self, in[1], in[2]))
        /\ call' = [op |-> "apply_snapshot", bids |-> in[1], asks |-> in[2]]
        /\ snapshot_seen' = TRUE

ApplyDelta ==
    \E side \in Sides, price \in Prices, size \in Sizes :
        /\ Become(apply_delta(Self, side, price, size))
        /\ call' = [op |-> "apply_delta"]
        /\ UNCHANGED snapshot_seen

\* the getters take &self: the engine is left as it is
\* (a best_bid that takes the level it reports out of the book)
BestBid_taking ==
    /\ call' = [op |-> "best_bid", ret |-> best_bid(Self)]
    /\ bids' = (IF DOMAIN bids = {} THEN bids
                ELSE BTreeMap_remove(bids,
                         iter_next_back(BTreeMap_iter(bids)).val[1]))
    /\ UNCHANGED <<market_id, asset_id, asks, has_snapshot, snapshot_seen>>

BestBid ==
    /\ call' = [op |-> "best_bid", ret |-> best_bid(Self)]
    /\ UNCHANGED <<market_id, asset_id, bids, asks, has_snapshot,
                   snapshot_seen>>

BestAsk ==
    /\ call' = [op |-> "best_ask", ret |-> best_ask(Self)]
    /\ UNCHANGED <<market_id, asset_id, bids, asks, has_snapshot,
                   snapshot_seen>>

MidPrice ==
    /\ call' = [op |-> "mid_price", ret |-> mid_price(Self)]
    /\ UNCHANGED <<market_id, asset_id, bids, asks, has_snapshot,
                   snapshot_seen>>

HasSnapshot ==
    /\ call' = [op |-> "has_snapshot", ret |-> get_has_snapshot(Self)]
    /\ UNCHANGED <<market_id, asset_id, bids, asks, has_snapshot,
                   snapshot_seen>>

Next ==
    \/ ApplySnapshot
    \/ ApplyDelta
    \/ BestBid
    \/ BestAsk
    \/ MidPrice
    \/ HasSnapshot

Spec == Init /\ [][Next]_vars

\* the two operations that take &mut self, without the getters
NextUpdates ==
    \/ ApplySnapshot
    \/ ApplyDelta

SpecUpdates == Init /\ [][NextUpdates]_vars

\* price_to_key and key_to_price as functions of an f64: a price is drawn,
\* quantized, and the key is turned back into a price
InitQuantize ==
    \E m \in MarketIds, a \in AssetIds, p \in RoundTripPrices :
        /\ market_id = new(m, a).market_id
        /\ asset_id = new(m, a).asset_id
        /\ bids = new(m, a).bids
        /\ asks = new(m, a).asks
        /\ has_snapshot = new(m, a).has_snapshot
        /\ call = [op |-> "price", p |-> p]
        /\ snapshot_seen = FALSE

PriceToKey ==
    /\ call.op = "price"
    /\ call' = [op |-> "price_to_key", p |-> call.p,
                key |-> ieee_price_to_key(call.p)]
    /\ UNCHANGED <<market_id, asset_id, bids, asks, has_snapshot,
                   snapshot_seen>>

KeyToPrice ==
    /\ call.op = "price_to_key"
    /\ call' = [op |-> "key_to_price", p |-> call.p, key |-> call.key,
                ret |-> ieee_key_to_price(call.key)]
    /\ UNCHANGED <<market_id, asset_id, bids, asks, has_snapshot,
                   snapshot_seen>>

NextQuantize ==
    \/ PriceToKey
    \/ KeyToPrice

SpecQuantize == InitQuantize /\ [][NextQuantize]_vars

---------------------------------------------------------------------------
(* Vocabulary of the properties *)

\* the spellings of "BUY" ignoring ASCII case
BuySpellings ==
    { <<b, u, y>> : b \in {"B", "b"}, u \in {"U", "u"}, y \in {"Y", "y"} }

\* the side of engine e a delta with this side string is meant for
TargetSide(e, side) == IF side \in BuySpellings THEN e.bids ELSE e.asks
OtherSide(e, side) == IF side \in BuySpellings THEN e.asks ELSE e.bids

\* size >= 0 and 0 <= price <= 1
EntryIsValid(e) ==
    /\ ~e[1].nan /\ ~e[2].nan
    /\ e[2].v >= 0
    /\ 0 <= e[1].v /\ e[1].v <= ONE

\* the positions of the valid entries of sequence es that quantize to k
ValidAt(es, k) ==
    { i \in DOMAIN es : EntryIsValid(es[i]) /\ price_to_key(es[i][1]) = k }

KeysSupplied(es) ==
    { price_to_key(es[i][1]) : i \in { j \in DOMAIN es : EntryIsValid(es[j]) } }

Last(idx) == CHOOSE i \in idx : \A j \in idx : j <= i

IsRemoval(size) == ~size.nan /\ size.v <= 0
IsPositive(size) == ~size.nan /\ size.v > 0
BelowZero(price) == ~price.nan /\ price.v < 0
AboveOne(price) == ~price.nan /\ price.v > ONE

\* map m2 is map m1 with the level at key k set to size (size > 0) or
\* removed (otherwise), every other level as it was
OnlyLevelChanged(m1, m2, k, size) ==
    /\ DOMAIN m2 = (IF IsPositive(size) THEN DOMAIN m1 \cup {k}
                    ELSE DOMAIN m1 \ {k})
    /\ \A j \in DOMAIN m2 : m2[j] = (IF j = k THEN size ELSE m1[j])

---------------------------------------------------------------------------
(* C1 *)

\* C1: every price level present in bids or asks has a strictly positive
\* size.  The code breaks it: apply_snapshot accepts an entry of size 0.0
\* (`s >= 0.0`) and stores it.
C1_LevelsStrictlyPositive ==
    /\ \A k \in DOMAIN bids : f64_gt(bids[k], ZERO)
    /\ \A k \in DOMAIN asks : f64_gt(asks[k], ZERO)

---------------------------------------------------------------------------
(* C2 *)

\* C2: while has_snapshot is false both mappings are empty, and apply_delta
\* with any side, price and size leaves the engine exactly as it is.
C2_DeltaGatedBySnapshot ==
    ~has_snapshot =>
        /\ DOMAIN bids = {} /\ DOMAIN asks = {}
        /\ \A side \in Sides, price \in Prices, size \in Sizes :
               apply_delta(Self, side, price, size) = Self

\* a delta has been applied to an engine that never had a snapshot
C2_Witness ==
    /\ call.op = "apply_delta"
    /\ ~snapshot_seen /\ ~has_snapshot
    /\ DOMAIN bids = {} /\ DOMAIN asks = {}

---------------------------------------------------------------------------
(* C3 *)

\* C3: has_snapshot is true exactly when apply_snapshot has been called at
\* least once in the history; in particular it is true right after every
\* apply_snapshot, also one with two empty sequences, and stays true
\* through every later call.
C3_HasSnapshotIffSnapshotSeen ==
    /\ has_snapshot <=> snapshot_seen
    /\ call.op = "apply_snapshot" => has_snapshot
    /\ call.op = "new" => ~has_snapshot
    /\ call.op = "has_snapshot" => (call.ret <=> snapshot_seen)

\* an empty snapshot has just been applied
C3_Witness ==
    /\ call.op = "apply_snapshot"
    /\ call.bids = <<>> /\ call.asks = <<>>
    /\ has_snapshot

---------------------------------------------------------------------------
(* C4 *)

\* C4: the book after apply_snapshot(B, A) depends on B and A only: whatever
\* the engine held before the call, it is the book the same call gives on a
\* newly constructed engine, so a level survives only if the input supplies
\* it; apply_snapshot([], []) leaves both mappings empty.
C4_SnapshotReplacesWholesale ==
    call.op = "apply_snapshot" =>
        LET fresh == apply_snapshot(new(market_id, asset_id),
                                    call.bids, call.asks)
        IN /\ bids = fresh.bids /\ asks = fresh.asks
           /\ DOMAIN bids \subseteq KeysSupplied(call.bids)
           /\ DOMAIN asks \subseteq KeysSupplied(call.asks)
           /\ call.bids = <<>> => DOMAIN bids = {}
           /\ call.asks = <<>> => DOMAIN asks = {}

\* a book left by a delta holds bids, and a snapshot that supplies bids of
\* other keys only, applied to it, leaves none of the bids it held
C4_Witness ==
    /\ call.op = "apply_delta"
    /\ DOMAIN bids # {}
    /\ \E in \in SnapshotInputs :
          LET here == apply_snapshot(Self, in[1], in[2])
          IN /\ DOMAIN here.bids # {}
             /\ DOMAIN here.bids \cap DOMAIN bids = {}
             /\ here.bids = snapshot_fill(BTreeMap_new, in[1])

---------------------------------------------------------------------------
(* C5 *)

\* C5: after apply_snapshot a side holds a level at key k exactly when its
\* input sequence has a valid entry (size >= 0, 0 <= price <= 1) that
\* quantizes to k; an entry with a negative size or a price outside [0, 1]
\* creates no level, neither at key 0 nor at key 1,000,000.
C5_SnapshotFiltering ==
    call.op = "apply_snapshot" =>
        /\ DOMAIN bids = KeysSupplied(call.bids)
        /\ DOMAIN asks = KeysSupplied(call.asks)
        /\ (\A i \in DOMAIN call.bids : ~EntryIsValid(call.bids[i]))
               => DOMAIN bids = {}
        /\ (\A i \in DOMAIN call.asks : ~EntryIsValid(call.asks[i]))
               => DOMAIN asks = {}

\* a snapshot whose bids hold one valid entry and one entry with a price
\* below 0 or above 1 has been applied: one level, not at the clamped key
C5_Witness ==
    /\ call.op = "apply_snapshot"
    /\ \E i, j \in DOMAIN call.bids :
          /\ EntryIsValid(call.bids[i])
          /\ BelowZero(call.bids[j][1]) \/ AboveOne(call.bids[j][1])
          /\ price_to_key(call.bids[i][1]) # price_to_key(call.bids[j][1])
          /\ DOMAIN bids = {price_to_key(call.bids[i][1])}

---------------------------------------------------------------------------
(* C6 *)

\* C6: when several valid entries of one input sequence of apply_snapshot
\* quantize to the same key, the mapping holds one level at that key, with
\* the size of the last of them.
C6_SnapshotLastWriteWins ==
    call.op = "apply_snapshot" =>
        /\ \A k \in KeysSupplied(call.bids) :
              /\ k \in DOMAIN bids
              /\ bids[k] = call.bids[Last(ValidAt(call.bids, k))][2]
        /\ \A k \in KeysSupplied(call.asks) :
              /\ k \in DOMAIN asks
              /\ asks[k] = call.asks[Last(ValidAt(call.asks, k))][2]

\* a snapshot with two valid bids of one key and different sizes has been
\* applied, and the level has the size of the later one
C6_Witness ==
    /\ call.op = "apply_snapshot"
    /\ \E i, j \in DOMAIN call.bids :
          /\ i < j
          /\ EntryIsValid(call.bids[i]) /\ EntryIsValid(call.bids[j])
          /\ price_to_key(call.bids[i][1]) = price_to_key(call.bids[j][1])
          /\ call.bids[i][2] # call.bids[j][2]
          /\ bids[price_to_key(call.bids[j][1])] = call.bids[j][2]
          /\ Cardinality(DOMAIN bids) = 1

---------------------------------------------------------------------------
(* C7 *)

\* C7: with has_snapshot true, apply_delta with size <= 0 leaves no level
\* at the quantized key on the target side, whether or not one was there;
\* applying the same removal again changes nothing, and removing an absent
\* key changes nothing.
C7_DeltaRemovalIdempotent ==
    has_snapshot =>
        \A side \in Sides, price \in Prices, size \in Sizes :
            IsRemoval(size) =>
                LET once == apply_delta(Self, side, price, size)
                    twice == apply_delta(once, side, price, size)
                    key == price_to_key(price)
                IN /\ key \notin DOMAIN TargetSide(once, side)
                   /\ twice = once
                   /\ key \notin DOMAIN TargetSide(Self, side) => once = Self

\* a book with a bid of size > 0 at a key, which a removal delta takes away
\* and a second one leaves away
C7_Witness ==
    /\ has_snapshot
    /\ \E side \in Sides, price \in Prices, size \in Sizes :
          LET once == apply_delta(Self, side, price, size)
              key == price_to_key(price)
          IN /\ IsRemoval(size)
             /\ key \in DOMAIN TargetSide(Self, side)
             /\ key \notin DOMAIN TargetSide(once, side)
             /\ apply_delta(once, side, price, size) = once
             /\ once # Self

---------------------------------------------------------------------------
(* C8 *)

\* C8: with has_snapshot true, after apply_delta with size > 0 the level at
\* the quantized key on the target side has exactly the given size,
\* whatever was there before.
C8_DeltaAbsolute ==
    has_snapshot =>
        \A side \in Sides, price \in Prices, size \in Sizes :
            IsPositive(size) =>
                LET after == TargetSide(apply_delta(Self, side, price, size),
                                        side)
                    key == price_to_key(price)
                IN key \in DOMAIN after /\ after[key] = size

\* a book with a level of size > 0, which a delta of another size > 0
\* overwrites
C8_Witness ==
    /\ has_snapshot
    /\ \E side \in Sides, price \in Prices, size \in Sizes :
          LET before == TargetSide(Self, side)
              after == TargetSide(apply_delta(Self, side, price, size), side)
              key == price_to_key(price)
          IN /\ IsPositive(size)
             /\ key \in DOMAIN before
             /\ IsPositive(before[key]) /\ before[key] # size
             /\ after[key] = size

---------------------------------------------------------------------------
(* C9 *)

\* C9: a side string equal to "BUY" ignoring case updates bids and never
\* asks; every other string updates asks and never bids, and is not
\* rejected.
C9_DeltaSideSelection ==
    has_snapshot =>
        \A side \in Sides, price \in Prices, size \in Sizes :
            LET after == apply_delta(Self, side, price, size)
                key == price_to_key(price)
            IN IF side \in BuySpellings
               THEN /\ after.asks = asks
                    /\ OnlyLevelChanged(bids, after.bids, key, size)
               ELSE /\ after.bids = bids
                    /\ OnlyLevelChanged(asks, after.asks, key, size)

\* a book on which a lower-case "buy" delta creates a bid and a delta
\* with an unrecognized side creates an ask
C9_Witness ==
    /\ has_snapshot
    /\ \E s1, s2 \in Sides, price \in Prices, size \in Sizes :
          LET a1 == apply_delta(Self, s1, price, size)
              a2 == apply_delta(Self, s2, price, size)
              key == price_to_key(price)
          IN /\ s1 \in BuySpellings /\ s1 # BUY
             /\ s2 \notin BuySpellings /\ s2 # <<"S", "E", "L", "L">>
             /\ IsPositive(size)
             /\ key \notin DOMAIN bids /\ key \notin DOMAIN asks
             /\ key \in DOMAIN a1.bids /\ a1.asks = asks
             /\ key \in DOMAIN a2.asks /\ a2.bids = bids

---------------------------------------------------------------------------
(* C10 *)

---------------------------------------------------------------------------
(* Vocabulary of the getter properties *)

MaxKey(S) == CHOOSE k \in S : \A j \in S : j <= k
MinKey(S) == CHOOSE k \in S : \A j \in S : k <= j

\* the price k / 1,000,000 of key k, in price units
PriceOfKey(k) == [nan |-> FALSE, v |-> k * (ONE \div SCALE)]

\* what best_bid, best_ask and mid_price are to return on engine e
ExpectedBestBid(e) ==
    IF DOMAIN e.bids = {} THEN [some |-> FALSE, val |-> ZERO]
    ELSE [some |-> TRUE, val |-> PriceOfKey(MaxKey(DOMAIN e.bids))]

ExpectedBestAsk(e) ==
    IF DOMAIN e.asks = {} THEN [some |-> FALSE, val |-> ZERO]
    ELSE [some |-> TRUE, val |-> PriceOfKey(MinKey(DOMAIN e.asks))]

---------------------------------------------------------------------------
(* C11 *)

---------------------------------------------------------------------------
(* C12 *)

\* C12: best_bid() returns none exactly when bids is empty, and otherwise
\* the price of the greatest key present in bids.
C12_BestBid ==
    /\ best_bid(Self).some <=> DOMAIN bids # {}
    /\ best_bid(Self) = ExpectedBestBid(Self)
    /\ call.op = "best_bid" => call.ret = ExpectedBestBid(Self)

\* best_bid has been called on a book with several bids and has returned
\* the price of the greatest key, which is not the least
C12_Witness ==
    /\ call.op = "best_bid"
    /\ Cardinality(DOMAIN bids) >= 2
    /\ call.ret.some
    /\ call.ret.val = PriceOfKey(MaxKey(DOMAIN bids))
    /\ call.ret.val # PriceOfKey(MinKey(DOMAIN bids))

---------------------------------------------------------------------------
(* C13 *)

\* C13: best_ask() returns none exactly when asks is empty, and otherwise
\* the price of the least key present in asks.
C13_BestAsk ==
    /\ best_ask(Self).some <=> DOMAIN asks # {}
    /\ best_ask(Self) = ExpectedBestAsk(Self)
    /\ call.op = "best_ask" => call.ret = ExpectedBestAsk(Self)

\* best_ask has been called on a book with several asks and has returned
\* the price of the least key, which is not the greatest
C13_Witness ==
    /\ call.op = "best_ask"
    /\ Cardinality(DOMAIN asks) >= 2
    /\ call.ret.some
    /\ call.ret.val = PriceOfKey(MinKey(DOMAIN asks))
    /\ call.ret.val # PriceOfKey(MaxKey(DOMAIN asks))

---------------------------------------------------------------------------
(* C14 *)

\* C14: mid_price() is the arithmetic mean of best_bid and best_ask when
\* both sides have levels, the best price of the populated side when only
\* one has, and none exactly when both are empty.
C14_MidPriceOf(e, r) ==
    LET bb == ExpectedBestBid(e)
        ba == ExpectedBestAsk(e)
    IN /\ r.some <=> (DOMAIN e.bids # {} \/ DOMAIN e.asks # {})
       /\ bb.some /\ ba.some =>
              ~r.val.nan /\ 2 * r.val.v = bb.val.v + ba.val.v
       /\ bb.some /\ ~ba.some => r.val = bb.val
       /\ ~bb.some /\ ba.some => r.val = ba.val

C14_MidPrice ==
    /\ C14_MidPriceOf(Self, mid_price(Self))
    /\ call.op = "mid_price" => C14_MidPriceOf(Self, call.ret)

\* mid_price has been called on a book with asks and no bids and has
\* returned the best ask
C14_Witness ==
    /\ call.op = "mid_price"
    /\ DOMAIN bids = {} /\ DOMAIN asks # {}
    /\ call.ret.some
    /\ call.ret.val = PriceOfKey(MinKey(DOMAIN asks))

---------------------------------------------------------------------------
(* C15 *)

\* C15: an update that crosses the book is applied like any other: a delta
\* of size > 0 sets its level and leaves the other side as it is also when
\* the key passes the best price of the other side, a snapshot leaves
\* exactly the levels it supplies also when they cross, and in a crossed
\* book best_bid and best_ask are the greatest bid and the least ask held.
C15_CrossedBookAccepted ==
    /\ has_snapshot =>
          \A side \in Sides, price \in Prices, size \in Sizes :
              IsPositive(size) =>
                  LET after == apply_delta(Self, side, price, size)
                      key == price_to_key(price)
                  IN /\ key \in DOMAIN TargetSide(after, side)
                     /\ TargetSide(after, side)[key] = size
                     /\ OtherSide(after, side) = OtherSide(Self, side)
    /\ call.op = "apply_snapshot" =>
          /\ DOMAIN bids = KeysSupplied(call.bids)
          /\ DOMAIN asks = KeysSupplied(call.asks)
    /\ (DOMAIN bids # {} /\ DOMAIN asks # {}
          /\ MaxKey(DOMAIN bids) > MinKey(DOMAIN asks)) =>
          /\ best_bid(Self) = Some(PriceOfKey(MaxKey(DOMAIN bids)))
          /\ best_ask(Self) = Some(PriceOfKey(MinKey(DOMAIN asks)))
          /\ best_bid(Self).val.v > best_ask(Self).val.v

\* a snapshot alone has left a crossed book (bid 1.0 over ask 0.0), and a
\* delta applied to it would cross it at another key
C15_Witness ==
    /\ call.op = "apply_snapshot"
    /\ DOMAIN bids # {} /\ DOMAIN asks # {}
    /\ best_bid(Self).val.v > best_ask(Self).val.v
    /\ \E price \in Prices :
          LET after == apply_delta(Self, BUY, price, F(1))
          IN /\ price_to_key(price) \notin DOMAIN bids
             /\ price_to_key(price) > MinKey(DOMAIN asks)
             /\ price_to_key(price) \in DOMAIN after.bids
             /\ after.asks = asks

---------------------------------------------------------------------------
(* C18 *)

\* the keys at which maps m1 and m2 differ
ChangedKeys(m1, m2) ==
    { k \in DOMAIN m1 \cup DOMAIN m2 :
          \/ (k \in DOMAIN m1) # (k \in DOMAIN m2)
          \/ k \in DOMAIN m1 /\ k \in DOMAIN m2 /\ m1[k] # m2[k] }

\* C18: once has_snapshot holds, one apply_delta changes at most the single
\* level at the quantized key of the selected side: every other level of
\* that side, the whole of the other side, has_snapshot, market_id and
\* asset_id are as before.
C18_DeltaFrame ==
    has_snapshot =>
        \A side \in Sides, price \in Prices, size \in Sizes :
            LET after == apply_delta(Self, side, price, size)
            IN /\ ChangedKeys(TargetSide(Self, side),
                              TargetSide(after, side))
                      \subseteq {price_to_key(price)}
               /\ ChangedKeys(OtherSide(Self, side),
                              OtherSide(after, side)) = {}
               /\ after.has_snapshot = has_snapshot
               /\ after.market_id = market_id
               /\ after.asset_id = asset_id

\* a book with several bids and an ask, on which one delta removes one bid
\* and another changes the size of the ask, each leaving the rest in place
C18_Witness ==
    /\ has_snapshot
    /\ Cardinality(DOMAIN bids) >= 2 /\ DOMAIN asks # {}
    /\ \E price \in Prices :
          /\ price_to_key(price) \in DOMAIN bids
          /\ ChangedKeys(bids, apply_delta(Self, BUY, price, F(0)).bids)
                 = {price_to_key(price)}
    /\ \E price \in Prices, size \in Sizes :
          /\ IsPositive(size)
          /\ price_to_key(price) \in DOMAIN asks
          /\ ChangedKeys(asks, apply_delta(Self, <<>>, price, size).asks)
                 = {price_to_key(price)}
          /\ apply_delta(Self, <<>>, price, size).asks[price_to_key(price)]
                 = size

---------------------------------------------------------------------------
(* C19 *)

Queries == {"best_bid", "best_ask", "mid_price", "has_snapshot"}

\* the value query op returns on engine e
QueryValue(op, e) ==
    CASE op = "best_bid" -> best_bid(e)
      [] op = "best_ask" -> best_ask(e)
      [] op = "mid_price" -> mid_price(e)
      [] op = "has_snapshot" -> get_has_snapshot(e)

\* C19: a step of best_bid, best_ask, mid_price or has_snapshot leaves
\* market_id, asset_id, bids, asks and has_snapshot unchanged, so that each
\* of the four queries has the same value after the step as before it, and
\* the value the step returned is the one the same query returns next.
C19_QueriesReadOnly ==
    [][call'.op \in Queries =>
          /\ UNCHANGED <<market_id, asset_id, bids, asks, has_snapshot>>
          /\ \A op \in Queries : QueryValue(op, Self') = QueryValue(op, Self)
          /\ call'.ret = QueryValue(call'.op, Self')]_vars

\* a query has been answered on a book with levels on both sides
C19_Witness ==
    /\ call.op \in Queries
    /\ has_snapshot
    /\ DOMAIN bids # {} /\ DOMAIN asks # {}
    /\ call.ret = QueryValue(call.op, Self)
    /\ call.op = "best_bid" => call.ret.some

---------------------------------------------------------------------------
(* C20 *)

\* the deltas the pairs are made of: both spellings of the buy side and an
\* unrecognized side, three prices on two keys, a removal and two sizes
PairSides == { BUY, <<"b", "u", "y">>, <<>> }
PairPrices == { P_below, P_a, P_a2 }
PairSizes == { F(0), F(1), F(5) }
PairDeltas == PairSides \X PairPrices \X PairSizes

\* the (side, key) a delta is aimed at
DeltaTarget(d) == <<d[1] \in BuySpellings, price_to_key(d[2])>>

ApplyDeltas(e, d1, d2) ==
    apply_delta(apply_delta(e, d1[1], d1[2], d1[3]), d2[1], d2[2], d2[3])

\* C20: from one state, two deltas aimed at different (side, key) pairs
\* give the same state in either order; two deltas aimed at the same
\* (side, key) give the state the later one gives alone.
C20_DeltaOrder ==
    call.op = "apply_delta" =>
        \A d1 \in PairDeltas, d2 \in PairDeltas :
            IF DeltaTarget(d1) # DeltaTarget(d2)
            THEN ApplyDeltas(Self, d1, d2) = ApplyDeltas(Self, d2, d1)
            ELSE ApplyDeltas(Self, d1, d2)
                     = apply_delta(Self, d2[1], d2[2], d2[3])

\* on a book left by a delta, two deltas on one key of bids give different
\* states in the two orders, and two on different keys change the book and
\* give the same state
C20_Witness ==
    /\ call.op = "apply_delta"
    /\ has_snapshot
    /\ DOMAIN bids # {}
    /\ \E d1 \in PairDeltas, d2 \in PairDeltas :
          /\ DeltaTarget(d1) = DeltaTarget(d2)
          /\ ApplyDeltas(Self, d1, d2) # ApplyDeltas(Self, d2, d1)
    /\ \E d1 \in PairDeltas, d2 \in PairDeltas :
          /\ DeltaTarget(d1) # DeltaTarget(d2)
          /\ apply_delta(Self, d1[1], d1[2], d1[3]) # Self
          /\ apply_delta(Self, d2[1], d2[2], d2[3]) # Self
          /\ ApplyDeltas(Self, d1, d2) = ApplyDeltas(Self, d2, d1)

---------------------------------------------------------------------------
(* C16 *)

\* x is an f64 of the model, m a map from keys to sizes, r an Option<f64>
IsF64(x) == DOMAIN x = {"nan", "v"} /\ x.nan \in BOOLEAN /\ x.v \in Int
IsLevels(m) == \A k \in DOMAIN m : k \in Nat /\ IsF64(m[k])
IsOption(r) == DOMAIN r = {"some", "val"} /\ r.some \in BOOLEAN /\ IsF64(r.val)

\* e is an engine: the five fields, each of its type
IsEngine(e) ==
    /\ DOMAIN e = {"market_id", "asset_id", "bids", "asks", "has_snapshot"}
    /\ e.market_id \in MarketIds /\ e.asset_id \in AssetIds
    /\ IsLevels(e.bids) /\ IsLevels(e.asks)
    /\ e.has_snapshot \in BOOLEAN

\* C16: every operation is accepted in every reachable state for every
\* input and ends in the transition or value specified for it, the outcome
\* an engine or a value like any other: a snapshot with malformed entries
\* is the snapshot of its well-formed entries, a delta before the first
\* snapshot changes nothing, a delta of size <= 0 leaves no level at its
\* key, a delta with an unrecognized side is applied to asks, and a query
\* on an empty or one-sided book returns none or the one-sided value.
C16_NoOperationFails ==
    /\ IsEngine(Self)
    /\ call.op = "apply_snapshot" =>
          Self = apply_snapshot(new(market_id, asset_id),
                                SelectSeq(call.bids, EntryIsValid),
                                SelectSeq(call.asks, EntryIsValid))
    /\ \A side \in Sides, price \in Prices, size \in Sizes :
          LET after == apply_delta(Self, side, price, size)
              key == price_to_key(price)
          IN /\ IsEngine(after)
             /\ ~has_snapshot => after = Self
             /\ has_snapshot /\ IsRemoval(size) =>
                    key \notin DOMAIN TargetSide(after, side)
             /\ has_snapshot /\ side \notin BuySpellings =>
                    /\ after.bids = bids
                    /\ OnlyLevelChanged(asks, after.asks, key, size)
    /\ IsOption(best_bid(Self)) /\ IsOption(best_ask(Self))
    /\ IsOption(mid_price(Self))
    /\ get_has_snapshot(Self) \in BOOLEAN
    /\ DOMAIN bids = {} => ~best_bid(Self).some
    /\ DOMAIN asks = {} => ~best_ask(Self).some
    /\ DOMAIN bids = {} /\ DOMAIN asks = {} => ~mid_price(Self).some
    /\ (DOMAIN bids = {}) # (DOMAIN asks = {}) => mid_price(Self).some

\* a snapshot made of one malformed and one well-formed bid has been
\* accepted and has left a one-sided book holding the well-formed one, on
\* which a delta with an unrecognized side is applied to asks
C16_Witness ==
    /\ call.op = "apply_snapshot"
    /\ \E i \in DOMAIN call.bids : ~EntryIsValid(call.bids[i])
    /\ \E i \in DOMAIN call.bids : EntryIsValid(call.bids[i])
    /\ DOMAIN bids # {} /\ DOMAIN asks = {}
    /\ mid_price(Self) = best_bid(Self)
    /\ apply_delta(Self, <<"B", "I", "D">>, P_a, F(1)).asks
           = BTreeMap_insert(asks, price_to_key(P_a), F(1))

---------------------------------------------------------------------------
(* C17 *)

Min(a, b) == IF a < b THEN a ELSE b

\* |x - y| of two f64 as an exact [m, e]
ieee_abs_diff(x, y) ==
    LET e == Min(x.e, y.e)
        a == Big_shl(x.m, x.e - e)
        b == Big_shl(y.m, y.e - e)
    IN [m |-> IF Big_le(a, b) THEN Big_sub(b, a) ELSE Big_sub(a, b),
        e |-> e]

\* a * 2^ea <= b * 2^eb
ScaledLe(a, ea, b, eb) ==
    Big_le(Big_shl(a, ea - Min(ea, eb)), Big_shl(b, eb - Min(ea, eb)))

\* d <= 0.0000005, that is d * 15625 * 2^7 <= 1
WithinHalfStep(d) == ScaledLe(Big_mul_small(d.m, 15625), d.e + 7, <<1>>, 0)

\* d <= 0.0000005 + 2^-52, that is d * 15625 * 2^7 <= (2^45 + 15625) * 2^-45
WithinHalfStepAndUlp(d) ==
    ScaledLe(Big_mul_small(d.m, 15625), d.e + 7,
             Big_add(Big_shl(<<1>>, 45), Big_of(15625)), 0 - 45)

\* C17 as stated: for every price p in [0, 1], key_to_price(price_to_key(p))
\* differs from p by at most 0.0000005.
C17_RoundTripWithinHalfStep ==
    call.op = "key_to_price" =>
        WithinHalfStep(ieee_abs_diff(call.ret, call.p))

\* C17: for every price p in [0, 1], key_to_price(price_to_key(p)) differs
\* from p by at most 0.0000005 + 2^-52: half the quantization step and the
\* rounding of the f64 product and quotient, which is under one unit in the
\* last place of 1.0.
C17_RoundTripWithinHalfStepAndUlp ==
    call.op = "key_to_price" =>
        /\ call.key = ieee_price_to_key(call.p)
        /\ call.ret = ieee_key_to_price(call.key)
        /\ WithinHalfStepAndUlp(ieee_abs_diff(call.ret, call.p))

\* the round trip of a price next to a half step has come back more than
\* 0.0000005 away, having been rounded up to the key above
C17_Witness ==
    /\ call.op = "key_to_price"
    /\ ~ieee_gt_one(call.p)
    /\ call.key = ieee_trunc_as_u64(ieee_mul(call.p, 15625, 6)) + 1
    /\ ~WithinHalfStep(ieee_abs_diff(call.ret, call.p))
    /\ WithinHalfStepAndUlp(ieee_abs_diff(call.ret, call.p))

===========================================================================
